---- MODULE Spec2Model ----
(***************************************************************************)
(* A model of go-composer.json: the version parser                         *)
(* (internal/version/version.go) and the composer.json configuration       *)
(* (pkg/composer/composer.go, pkg/composer/errors.go).                     *)
(*                                                                         *)
(* Go strings are modelled as sequences of one-character strings, so that  *)
(* len, strings.Split, strings.TrimPrefix, strings.HasPrefix and string    *)
(* concatenation are computed character by character, as the code does.    *)
(* A nil pointer and a nil error are the value Nil; a nil map is the empty  *)
(* function and a nil slice the empty sequence.                            *)
(***************************************************************************)
EXTENDS Integers, Sequences, FiniteSets, TLC

VARIABLES
    val,        \* version.NewVersion: the argument of the call
    verOut,     \* version.NewVersion: what the call returned, [version, err]
    vpc,        \* version.NewVersion: "call" before the call, "ret" after it
    psrConfig,  \* Psr4PathForNamespace: the Config the lookup is made on
    nsName,    \* Psr4PathForNamespace: the namespace looked up
    psrOut,     \* Psr4PathForNamespace: what the call returned, [path, found]
    ppc,        \* Psr4PathForNamespace: "call", then the method called
    heap,       \* CheckConfig: the Configs in use, by address
    report,     \* CheckConfig: what the last run returned, nil or *ConfigErrors
    calls,      \* CheckConfig: the checks the last run invoked, in order
    ran,        \* CheckConfig: the address of the Config of the last run
    last,       \* AddCheck / CheckConfig: the method called last
    repo,       \* ResolveUrl: the ConfigRepo the calls are made on
    basePath,   \* ResolveUrl: the argument of the last call
    ncalls,     \* ResolveUrl: the number of calls made
    data,       \* NewConfigFromData: the document, as its JSON tokens
    configPath, \* NewConfigFromData: the argument configPath
    wd,         \* NewConfigFromData: the working directory of the process
    loadOut,    \* NewConfigFromData: what the call returned
    lpc,        \* NewConfigFromData: "call" before the call, "ret" after it
    subject,    \* ConfigErrors.Error: the *ConfigErrors the call is made on
    rendered,   \* ConfigErrors.Error: what the call did, [panic, res]
    rpc         \* ConfigErrors.Error: "call" before the call, "ret" after it

versionVars == <<val, verOut, vpc>>
psrVars == <<psrConfig, nsName, psrOut, ppc>>
checkVars == <<heap, report, calls, ran, last>>
repoVars == <<repo, basePath, ncalls>>
loadVars == <<data, configPath, wd, loadOut, lpc>>
renderVars == <<subject, rendered, rpc>>
vars == <<versionVars, psrVars, checkVars, repoVars, loadVars, renderVars>>

\* nil: a record, so that it compares with every struct value.
Nil == [nil |-> TRUE]

-----------------------------------------------------------------------------
(* Strings                                                                 *)

Digits == {"0", "1", "2", "3", "4", "5", "6", "7", "8", "9"}

\* The numeric value of the byte c - '0'.
DigitVal(c) ==
    CASE c = "0" -> 0 [] c = "1" -> 1 [] c = "2" -> 2 [] c = "3" -> 3
      [] c = "4" -> 4 [] c = "5" -> 5 [] c = "6" -> 6 [] c = "7" -> 7
      [] c = "8" -> 8 [] c = "9" -> 9

\* strings.HasPrefix(s, prefix)
HasPrefix(s, prefix) ==
    /\ Len(s) >= Len(prefix)
    /\ SubSeq(s, 1, Len(prefix)) = prefix

\* strings.TrimPrefix(s, prefix): s without the prefix, once, when it has it.
TrimPrefix(s, prefix) ==
    IF HasPrefix(s, prefix) THEN SubSeq(s, Len(prefix) + 1, Len(s)) ELSE s

RECURSIVE SplitFrom(_, _, _)
SplitFrom(s, sep, cur) ==
    IF s = <<>> THEN <<cur>>
    ELSE IF Head(s) = sep THEN <<cur>> \o SplitFrom(Tail(s), sep, <<>>)
    ELSE SplitFrom(Tail(s), sep, Append(cur, Head(s)))

\* strings.Split(s, sep) for a one-byte separator: the pieces between the
\* separators, empty pieces included; Split("", sep) is one empty piece.
Split(s, sep) == SplitFrom(s, sep, <<>>)

RECURSIVE JoinWith(_, _)
\* strings.Join(pieces, sep) of one piece or more.
JoinWith(pieces, sep) ==
    IF Len(pieces) = 1 THEN pieces[1]
    ELSE pieces[1] \o <<sep>> \o JoinWith(Tail(pieces), sep)

-----------------------------------------------------------------------------
(* path/filepath, as built for a Unix target                               *)

\* filepath.Separator
Separator == "/"

\* The elements Clean keeps to work on: not the empty ones (doubled or
\* trailing separators) and not ".".
Elements(path) ==
    SelectSeq(Split(path, Separator), LAMBDA e : e # <<>> /\ e # <<".">>)

RECURSIVE CleanElements(_, _, _)
\* Clean's pass over the elements: ".." removes the element before it,
\* is dropped at the root, and is kept at the start of a relative path.
CleanElements(elems, out, rooted) ==
    IF elems = <<>> THEN out
    ELSE IF Head(elems) = <<".", ".">>
        THEN IF out # <<>> /\ out[Len(out)] # <<".", ".">>
                THEN CleanElements(Tail(elems), SubSeq(out, 1, Len(out) - 1), rooted)
             ELSE IF rooted THEN CleanElements(Tail(elems), out, rooted)
             ELSE CleanElements(Tail(elems), Append(out, Head(elems)), rooted)
    ELSE CleanElements(Tail(elems), Append(out, Head(elems)), rooted)

\* filepath.Clean(path)
Clean(path) ==
    IF path = <<>> THEN <<".">>
    ELSE
        LET rooted == Head(path) = Separator
            out    == CleanElements(Elements(path), <<>>, rooted)
            body   == IF out = <<>> THEN <<>> ELSE JoinWith(out, Separator)
        IN  IF rooted THEN <<Separator>> \o body
            ELSE IF body = <<>> THEN <<".">>
            ELSE body

\* filepath.Join(a, b): from the first non-empty element on, the elements
\* joined with the separator and cleaned; "" when both are empty.
Join(a, b) ==
    IF a # <<>> THEN Clean(a \o <<Separator>> \o b)
    ELSE IF b # <<>> THEN Clean(b)
    ELSE <<>>

RECURSIVE TrimTrailingSeparators(_)
TrimTrailingSeparators(path) ==
    IF path # <<>> /\ path[Len(path)] = Separator
        THEN TrimTrailingSeparators(SubSeq(path, 1, Len(path) - 1))
        ELSE path

\* The index of the last separator of path, 0 when it has none.
LastSeparator(path) ==
    LET at == {i \in 1..Len(path) : path[i] = Separator}
    IN  IF at = {} THEN 0 ELSE CHOOSE i \in at : \A j \in at : j <= i

\* filepath.Base(path)
Base(path) ==
    IF path = <<>> THEN <<".">>
    ELSE
        LET trimmed == TrimTrailingSeparators(path)
            elem    == SubSeq(trimmed, LastSeparator(trimmed) + 1, Len(trimmed))
        IN  IF elem = <<>> THEN <<Separator>> ELSE elem

\* filepath.Dir(path)
Dir(path) == Clean(SubSeq(path, 1, LastSeparator(path)))

\* filepath.IsAbs(path)
IsAbs(path) == HasPrefix(path, <<Separator>>)

\* filepath.ToSlash(path): every separator replaced by "/".
ToSlash(path) ==
    [i \in 1..Len(path) |-> IF path[i] = Separator THEN "/" ELSE path[i]]

\* os.Getwd failed.
NoWd == <<"?">>

\* filepath.Abs(path) in the working directory cwd: [path, err].
Abs(path, cwd) ==
    IF IsAbs(path) THEN [path |-> Clean(path), err |-> "nil"]
    ELSE IF cwd = NoWd THEN [path |-> <<>>, err |-> "getwd"]
    ELSE [path |-> Join(cwd, path), err |-> "nil"]

-----------------------------------------------------------------------------
(* strconv.ParseInt(s, 10, 64)                                             *)

\* The decimal digits of 1<<63 - 1, the largest int64.
MaxInt64Digits ==
    <<"9", "2", "2", "3", "3", "7", "2", "0", "3", "6",
      "8", "5", "4", "7", "7", "5", "8", "0", "7">>

RECURSIVE StripZeros(_)
StripZeros(ds) ==
    IF Len(ds) > 1 /\ Head(ds) = "0" THEN StripZeros(Tail(ds)) ELSE ds

RECURSIVE LexLeq(_, _)
\* a <= b for digit sequences of the same length.
LexLeq(a, b) ==
    IF a = <<>> THEN TRUE
    ELSE IF DigitVal(Head(a)) < DigitVal(Head(b)) THEN TRUE
    ELSE IF DigitVal(Head(a)) > DigitVal(Head(b)) THEN FALSE
    ELSE LexLeq(Tail(a), Tail(b))

\* The magnitude written by the digits ds is at most 1<<63 - 1.
FitsInt64(ds) ==
    LET n == StripZeros(ds)
    IN  \/ Len(n) < Len(MaxInt64Digits)
        \/ Len(n) = Len(MaxInt64Digits) /\ LexLeq(n, MaxInt64Digits)

RECURSIVE Accumulate(_, _)
\* ParseUint's loop: n = n*10 + digit, left to right.
Accumulate(ds, n) ==
    IF ds = <<>> THEN n ELSE Accumulate(Tail(ds), n * 10 + DigitVal(Head(ds)))

\* The decimal digits of 1<<63, the magnitude of the least int64.
MinInt64Magnitude ==
    <<"9", "2", "2", "3", "3", "7", "2", "0", "3", "6",
      "8", "5", "4", "7", "7", "5", "8", "0", "8">>

\* strconv.ParseInt(s, 10, 64): an optional sign, then one or more decimal
\* digits (base 10 admits no underscores); a value outside int64 is the
\* range error.  [n, err]: err is "nil", "syntax" or "range".
ParseInt(s) ==
    IF s = <<>> THEN [n |-> 0, err |-> "syntax"]
    ELSE
        LET neg  == Head(s) = "-"
            body == IF Head(s) \in {"+", "-"} THEN Tail(s) ELSE s
        IN  IF body = <<>> THEN [n |-> 0, err |-> "syntax"]
            ELSE IF \E i \in 1..Len(body) : body[i] \notin Digits
                THEN [n |-> 0, err |-> "syntax"]
            ELSE IF ~neg /\ ~FitsInt64(body) THEN [n |-> 0, err |-> "range"]
            ELSE IF neg /\ ~FitsInt64(body)
                        /\ StripZeros(body) # MinInt64Magnitude
                THEN [n |-> 0, err |-> "range"]
            ELSE [n   |-> IF neg THEN 0 - Accumulate(body, 0)
                                 ELSE Accumulate(body, 0),
                  err |-> "nil"]

-----------------------------------------------------------------------------
(* internal/version: Version and NewVersion                                *)

\* var version = &Version{}
ZeroVersion ==
    [Major |-> 0, Minor |-> 0, Micro |-> 0,
     IsDev |-> FALSE, IsPatch |-> FALSE, IsAlpha |-> FALSE,
     IsBeta |-> FALSE, IsRC |-> FALSE]

\* fmt.Errorf(format, args...): the format string and its arguments.
Errorf(format, args) == [format |-> format, args |-> args]

ErrEmpty == Errorf("version is empty", <<>>)
ErrFormat == Errorf("version must be in the format [v]X.Y.Z[-suffix]", <<>>)
ErrSuffix(suffix) == Errorf("unknown version suffix '%s'", <<suffix>>)
ErrPart1(text) == Errorf("part 1 ('%s') of the version must be a number", <<text>>)
ErrPart2(text) == Errorf("part 2 ('%s') of the version must be a number", <<text>>)
ErrPart3(text) == Errorf("part 3 ('%s') of the version must be a number", <<text>>)

\* len(val) < 5
MinLen == 5

\* SwitchSuffix with the abbreviations "a" and "b" under the wrong cases.
SwitchSuffixAbbrevSwapped(version, suffix) ==
    CASE suffix = <<"d", "e", "v">> -> [version EXCEPT !.IsDev = TRUE]
      [] suffix \in {<<"p", "a", "t", "c", "h">>, <<"p">>} ->
            [version EXCEPT !.IsPatch = TRUE]
      [] suffix \in {<<"a", "l", "p", "h", "a">>, <<"b">>} ->
            [version EXCEPT !.IsAlpha = TRUE]
      [] suffix \in {<<"b", "e", "t", "a">>, <<"a">>} ->
            [version EXCEPT !.IsBeta = TRUE]
      [] suffix = <<"R", "C">> -> [version EXCEPT !.IsRC = TRUE]
      [] OTHER -> Nil

\* The switch on vals[1]: the version with the suffix's flag set, or Nil
\* for the default case.
SwitchSuffix(version, suffix) ==
    CASE suffix = <<"d", "e", "v">> -> [version EXCEPT !.IsDev = TRUE]
      [] suffix \in {<<"p", "a", "t", "c", "h">>, <<"p">>} ->
            [version EXCEPT !.IsPatch = TRUE]
      [] suffix \in {<<"a", "l", "p", "h", "a">>, <<"a">>} ->
            [version EXCEPT !.IsAlpha = TRUE]
      [] suffix \in {<<"b", "e", "t", "a">>, <<"b">>} ->
            [version EXCEPT !.IsBeta = TRUE]
      [] suffix = <<"R", "C">> -> [version EXCEPT !.IsRC = TRUE]
      [] OTHER -> Nil

\* ParseParts with the three results examined from the last to the first.
ParsePartsLastFirst(version, vals) ==
    LET major == ParseInt(vals[1])
        minor == ParseInt(vals[2])
        micro == ParseInt(vals[3])
    IN  IF micro.err # "nil" THEN [version |-> Nil, err |-> ErrPart3(vals[3])]
        ELSE IF minor.err # "nil" THEN [version |-> Nil, err |-> ErrPart2(vals[2])]
        ELSE IF major.err # "nil" THEN [version |-> Nil, err |-> ErrPart1(vals[1])]
        ELSE [version |-> [version EXCEPT !.Major = major.n,
                                          !.Minor = minor.n,
                                          !.Micro = micro.n],
              err |-> Nil]

\* The three ParseInt calls, in order; the first failure returns.
ParseParts(version, vals) ==
    LET major == ParseInt(vals[1])
        minor == ParseInt(vals[2])
        micro == ParseInt(vals[3])
    IN  IF major.err # "nil" THEN [version |-> Nil, err |-> ErrPart1(vals[1])]
        ELSE IF minor.err # "nil" THEN [version |-> Nil, err |-> ErrPart2(vals[2])]
        ELSE IF micro.err # "nil" THEN [version |-> Nil, err |-> ErrPart3(vals[3])]
        ELSE [version |-> [version EXCEPT !.Major = major.n,
                                          !.Minor = minor.n,
                                          !.Micro = micro.n],
              err |-> Nil]

\* ParseCore asking for at least, not exactly, three components.
ParseCoreAtLeastThree(version, core) ==
    LET vals == Split(core, ".")
    IN  IF Len(vals) < 3 THEN [version |-> Nil, err |-> ErrFormat]
        ELSE ParseParts(version, vals)

\* From val = vals[0] on: the split on "." and the three components.
ParseCore(version, core) ==
    LET vals == Split(core, ".")
    IN  IF Len(vals) # 3 THEN [version |-> Nil, err |-> ErrFormat]
        ELSE ParseParts(version, vals)

\* After the length checks: the prefix, the split on "-", the suffix.
ParseSuffixed(val0) ==
    LET trimmed == TrimPrefix(val0, <<"v">>)
        vals    == Split(trimmed, "-")
    IN  IF Len(vals) > 2 THEN [version |-> Nil, err |-> ErrFormat]
        ELSE IF Len(vals) = 2
            THEN LET flagged == SwitchSuffix(ZeroVersion, vals[2])
                 IN  IF flagged = Nil
                        THEN [version |-> Nil, err |-> ErrSuffix(vals[2])]
                        ELSE ParseCore(flagged, vals[1])
        ELSE ParseCore(ZeroVersion, vals[1])

\* func NewVersion(val string) (*Version, error)
NewVersion(val0) ==
    IF val0 = <<>> THEN [version |-> Nil, err |-> ErrEmpty]
    ELSE IF Len(val0) < MinLen THEN [version |-> Nil, err |-> ErrFormat]
    ELSE ParseSuffixed(val0)

-----------------------------------------------------------------------------
(* pkg/composer: Config, Autoload and Psr4PathForNamespace                 *)

\* Config{}: the fields the modelled methods read or write.  A nil map is
\* the empty function, a nil slice the empty sequence.
EmptyConfig ==
    [Name |-> <<>>, RawVersion |-> <<>>, Version |-> Nil,
     Autoload |-> [Psr4 |-> <<>>], AutoloadDev |-> [Psr4 |-> <<>>],
     Path |-> <<>>, RootDir |-> <<>>, Checks |-> <<>>]

\* The namespace separator the lookup appends.
Backslash == "\\"

RECURSIVE Psr4Loop(_, _, _, _, _)
\* The range loop over a.Psr4, its keys visited in the order given: the
\* pair (psrNameForFound, foundPath) after the last key.
Psr4Loop(psr4, order, name, psrNameForFound, foundPath) ==
    IF order = <<>> THEN <<psrNameForFound, foundPath>>
    ELSE
        LET psrName == Head(order)
            psrPath == psr4[psrName]
        IN  IF HasPrefix(name, psrName) /\ Len(psrName) > Len(psrNameForFound)
                THEN Psr4Loop(psr4, Tail(order), name, psrName, psrPath)
                ELSE Psr4Loop(psr4, Tail(order), name, psrNameForFound, foundPath)

\* func (a *Autoload) Psr4PathForNamespace(name string) (string, bool),
\* the map ranged over in the given order.
AutoloadPsr4PathForNamespace(a, name, order) ==
    LET found == Psr4Loop(a.Psr4, order, name \o <<Backslash>>, <<>>, <<>>)
    IN  IF found[2] = <<>> THEN [path |-> <<>>, found |-> FALSE]
        ELSE [path |-> found[2], found |-> TRUE]

\* func (c *Config) Psr4PathForNamespace(name string) (string, bool)
ConfigPsr4PathForNamespace(c, name, order, orderDev) ==
    LET dir   == Base(c.RootDir)
        first == AutoloadPsr4PathForNamespace(c.Autoload, name, order)
        dev   == AutoloadPsr4PathForNamespace(c.AutoloadDev, name, orderDev)
    IN  IF first.found THEN [path |-> dir \o <<"/">> \o first.path, found |-> TRUE]
        ELSE IF dev.found THEN [path |-> dir \o <<"/">> \o dev.path, found |-> TRUE]
        ELSE [path |-> <<>>, found |-> FALSE]

\* The orders in which a range loop may visit the keys of a map.
KeyOrders(m) ==
    {o \in [1..Cardinality(DOMAIN m) -> DOMAIN m] :
        \A i, j \in 1..Cardinality(DOMAIN m) : i # j => o[i] # o[j]}

\* The most entries a psr-4 table holds.
MaxEntries == 2

Psr4Keys ==
    {<<>>, <<"A", Backslash>>, <<"A", Backslash, "B", Backslash>>,
     <<"B", Backslash>>}
Psr4Paths == {<<>>, <<"s", "r", "c">>, <<"l", "i", "b">>}
Psr4Tables ==
    UNION {[keys -> Psr4Paths] :
              keys \in {k \in SUBSET Psr4Keys : Cardinality(k) <= MaxEntries}}
Namespaces ==
    {<<"A">>, <<"A", Backslash, "B">>, <<"A", Backslash, "B", Backslash, "C">>,
     <<"B">>, <<"C">>}
RootDirs == {<<>>, <<"/">>, <<"/", "p", "/", "a", "p", "p">>}

-----------------------------------------------------------------------------
(* pkg/composer: ConfigError, ConfigErrors, AddCheck and CheckConfig       *)

\* A *Config: the address of a Config of the heap.
Ptr(addr) == [addr |-> addr]

\* &ConfigError{Msg: msg, Critical: critical}
ConfigError(msg, critical) == [Msg |-> msg, Critical |-> critical]

\* func (ce *ConfigErrors) Add(err *ConfigError)
ConfigErrorsAdd(ce, err) == [ce EXCEPT !.Errors = Append(@, err)]

\* func (ce *ConfigErrors) Len() int
ConfigErrorsLen(ce) == Len(ce.Errors)

\* func NewConfigErrors(errors ...*ConfigError) *ConfigErrors: the Config
\* field is left nil.
NewConfigErrors(errors) == [Config |-> Nil, Errors |-> errors]

\* The text Error() builds is a sequence of pieces: the literal text of the
\* code, a string value of the program, and the text of a Msg, which is
\* kept whole.
Lit(s) == [lit |-> s]
Str(s) == [str |-> s]
MsgText(msg) == [msg |-> msg]

\* func (ce ConfigError) Error() string
ConfigErrorError(ce) ==
    LET res == IF ce.Critical THEN <<Lit("<critical> ")>> ELSE <<>>
    IN  res \o <<MsgText(ce.Msg)>>

\* fmt.Sprintf("config %s: %s\n", path, text)
SprintfConfigLine(path, text) ==
    <<Lit("config "), Str(path), Lit(": ")>> \o text \o <<Lit("\n")>>

RECURSIVE ConfigErrorsErrorLoop(_, _, _, _)
\* for _, e := range ce.Errors, from the i-th error on, with the Configs
\* of mem at their addresses: ce.Config.Path panics when ce.Config is nil.
ConfigErrorsErrorLoop(ce, mem, i, res) ==
    IF i > Len(ce.Errors) THEN [panic |-> FALSE, res |-> res]
    ELSE IF ce.Config = Nil THEN [panic |-> TRUE, res |-> res]
    ELSE ConfigErrorsErrorLoop(ce, mem, i + 1,
            res \o SprintfConfigLine(mem[ce.Config.addr].Path,
                                     ConfigErrorError(ce.Errors[i])))

\* func (ce *ConfigErrors) Error() string: whether the call panics and,
\* when it does not, the string returned.
ConfigErrorsError(ce, mem) == ConfigErrorsErrorLoop(ce, mem, 1, <<>>)

\* The check functions registered: one that passes, one that returns a
\* finding that is not critical, and the README's check of the name.
CheckFns == {"pass", "warn", "namePrefix"}

\* check(c): nil or a *ConfigError.
CallCheck(check, c) ==
    CASE check = "pass" -> Nil
      [] check = "warn" -> ConfigError("warn", FALSE)
      [] check = "namePrefix" ->
            IF ~HasPrefix(c.Name, <<"m", "y", "/">>)
                THEN ConfigError("name must starts with prefix my/", TRUE)
                ELSE Nil

\* func (c *Config) AddCheck(check func(*Config) *ConfigError)
ConfigAddCheck(c, check) == [c EXCEPT !.Checks = Append(@, check)]

RECURSIVE CheckLoopUntilCritical(_, _, _, _)
\* CheckLoop leaving the loop after a critical finding.
CheckLoopUntilCritical(c, i, errors, invoked) ==
    IF i > Len(c.Checks) THEN [errors |-> errors, invoked |-> invoked]
    ELSE
        LET err == CallCheck(c.Checks[i], c)
        IN  IF err = Nil
                THEN CheckLoopUntilCritical(c, i + 1, errors, Append(invoked, i))
            ELSE IF err.Critical
                THEN [errors  |-> ConfigErrorsAdd(errors, err),
                      invoked |-> Append(invoked, i)]
            ELSE CheckLoopUntilCritical(c, i + 1, ConfigErrorsAdd(errors, err),
                                        Append(invoked, i))

RECURSIVE CheckLoop(_, _, _, _)
\* for _, check := range c.Checks, from the i-th check on: the errors
\* collected and the checks invoked (by their place in c.Checks).
CheckLoop(c, i, errors, invoked) ==
    IF i > Len(c.Checks) THEN [errors |-> errors, invoked |-> invoked]
    ELSE
        LET err == CallCheck(c.Checks[i], c)
        IN  IF err # Nil
                THEN CheckLoop(c, i + 1, ConfigErrorsAdd(errors, err),
                               Append(invoked, i))
                ELSE CheckLoop(c, i + 1, errors, Append(invoked, i))

\* CheckConfig returning its ConfigErrors whether or not it holds an error.
ConfigCheckConfigAlwaysReport(addr, c) ==
    LET done == CheckLoop(c, 1, [Config |-> Ptr(addr), Errors |-> <<>>], <<>>)
    IN  [ret |-> done.errors, invoked |-> done.invoked]

\* func (c *Config) CheckConfig() *ConfigErrors, c the Config at addr:
\* what it returns and the checks it invoked.
ConfigCheckConfig(addr, c) ==
    LET done == CheckLoop(c, 1, [Config |-> Ptr(addr), Errors |-> <<>>], <<>>)
    IN  [ret     |-> IF ConfigErrorsLen(done.errors) = 0 THEN Nil ELSE done.errors,
         invoked |-> done.invoked]

\* The most checks registered on one Config.
MaxChecks == 2

\* The Configs checks are registered on: one whose name has the prefix
\* the README's check asks for, one whose name has not.
Addrs == {1, 2}
CheckedConfigs ==
    [a \in Addrs |->
        IF a = 1 THEN [EmptyConfig EXCEPT !.Name = <<"m", "y", "/", "x">>]
                 ELSE [EmptyConfig EXCEPT !.Name = <<"o">>]]

-----------------------------------------------------------------------------
(* pkg/composer: ConfigRepo and ResolveUrl                                 *)

\* ResolveUrl resolving again an entry that is resolved already.
ConfigRepoResolveUrlAgain(c, path) ==
    IF c.Type # "path" THEN c
    ELSE [c EXCEPT !.Url = ToSlash(Clean(Join(path, c.Url))),
                   !.Resolved = TRUE]

\* func (c *ConfigRepo) ResolveUrl(path string) *ConfigRepo: the entry
\* after the call (the pointer returned is the receiver).
ConfigRepoResolveUrl(c, path) ==
    IF c.Resolved THEN c
    ELSE IF c.Type # "path" THEN c
    ELSE [c EXCEPT !.Url = ToSlash(Clean(Join(path, c.Url))),
                   !.Resolved = TRUE]

\* The most ResolveUrl calls made on the entry.
MaxResolves == 3

RepoTypes == {"path", "vcs", ""}
RepoUrls ==
    {<<>>, <<"l", "i", "b">>, <<".", ".", "/", "l", "i", "b">>,
     <<"/", "a", "b", "s">>, <<".", "/", "a", "/", "/", "b", "/">>}
BasePaths ==
    {<<>>, <<"r", "e", "l">>, <<"/">>,
     <<"/", "p", "r", "o", "j", "/", "a", "p", "p">>}

-----------------------------------------------------------------------------
(* encoding/json.Unmarshal into a Config, on the tokens of the document    *)

Tok(t) == [t |-> t]
JStr(v) == [t |-> "str", v |-> v]
JNum == [t |-> "num"]
JNull == [t |-> "null"]

IsScalar(tok) == tok.t \in {"str", "num", "null"}

RECURSIVE MembersValid(_)
\* After "{" or ",": a key, ":", a value, then "}" at the end or "," and
\* more members.
MembersValid(toks) ==
    /\ Len(toks) >= 4
    /\ toks[1].t = "str"
    /\ toks[2].t = ":"
    /\ IsScalar(toks[3])
    /\ IF toks[4].t = "}" THEN Len(toks) = 4
       ELSE toks[4].t = "," /\ MembersValid(SubSeq(toks, 5, Len(toks)))

\* The scan for syntax errors Unmarshal makes before it decodes: a scalar,
\* or an object of scalar members.
JsonValid(toks) ==
    /\ toks # <<>>
    /\ \/ Len(toks) = 1 /\ IsScalar(toks[1])
       \/ /\ toks[1].t = "{"
          /\ \/ Len(toks) = 2 /\ toks[2].t = "}"
             \/ MembersValid(Tail(toks))

KeyName == <<"n", "a", "m", "e">>
KeyVersion == <<"v", "e", "r", "s", "i", "o", "n">>

\* One member decoded into the Config: a null leaves the field alone, a
\* string sets it, a number is a type error and the field is skipped; a
\* key no field is tagged with is ignored.  [config, err].
DecodeMember(c, key, value) ==
    IF key \notin {KeyName, KeyVersion} \/ value.t = "null"
        THEN [config |-> c, err |-> "nil"]
    ELSE IF value.t # "str" THEN [config |-> c, err |-> "type"]
    ELSE IF key = KeyName
        THEN [config |-> [c EXCEPT !.Name = value.v], err |-> "nil"]
    ELSE [config |-> [c EXCEPT !.RawVersion = value.v], err |-> "nil"]

RECURSIVE DecodeMembers(_, _, _, _)
\* The members from token i on, in order; the first type error is the one
\* returned, and decoding goes on after it.
DecodeMembers(toks, i, c, err) ==
    IF i + 2 > Len(toks) THEN [config |-> c, err |-> err]
    ELSE
        LET m == DecodeMember(c, toks[i].v, toks[i + 2])
        IN  DecodeMembers(toks, i + 4, m.config,
                          IF err = "nil" THEN m.err ELSE err)

\* json.Unmarshal(data, &config): [config, err], err "nil", "syntax" or
\* "type".
JsonUnmarshal(toks, c) ==
    IF ~JsonValid(toks) THEN [config |-> c, err |-> "syntax"]
    ELSE IF toks[1].t = "null" THEN [config |-> c, err |-> "nil"]
    ELSE IF toks[1].t # "{" THEN [config |-> c, err |-> "type"]
    ELSE DecodeMembers(toks, 2, c, "nil")

-----------------------------------------------------------------------------
(* pkg/composer: NewConfigFromData                                         *)

\* The addresses of the local config and of the placeholder &Config{}.
ConfigAddr == 1
PlaceholderAddr == 2

\* NewConfigFromData reporting the version error as a critical one.
NewConfigFromDataVersionCritical(toks, path, cwd) ==
    LET dec == JsonUnmarshal(toks, EmptyConfig)
    IN  IF dec.err # "nil"
            THEN [ptr    |-> Ptr(PlaceholderAddr),
                  config |-> EmptyConfig,
                  errs   |-> NewConfigErrors(<<ConfigError(dec.err, TRUE)>>)]
        ELSE
            LET ver     == NewVersion(dec.config.RawVersion)
                errors0 == [Config |-> Ptr(ConfigAddr), Errors |-> <<>>]
                errors  == IF ver.err # Nil
                              THEN ConfigErrorsAdd(errors0, ConfigError(ver.err, TRUE))
                              ELSE errors0
                absPath == Abs(path, cwd).path
                root    == Dir(absPath)
                config  == [dec.config EXCEPT !.Version = ver.version,
                                              !.Path = absPath,
                                              !.RootDir = root]
            IN  [ptr    |-> Ptr(ConfigAddr),
                 config |-> config,
                 errs   |-> IF ConfigErrorsLen(errors) # 0 THEN errors ELSE Nil]

\* func NewConfigFromData(data []byte, configPath string)
\*     (*Config, *ConfigErrors)
\* in the working directory cwd: the pointer returned, the Config it
\* points to and the error list.
NewConfigFromData(toks, path, cwd) ==
    LET dec == JsonUnmarshal(toks, EmptyConfig)
    IN  IF dec.err # "nil"
            THEN [ptr    |-> Ptr(PlaceholderAddr),
                  config |-> EmptyConfig,
                  errs   |-> NewConfigErrors(<<ConfigError(dec.err, TRUE)>>)]
        ELSE
            LET ver     == NewVersion(dec.config.RawVersion)
                errors0 == [Config |-> Ptr(ConfigAddr), Errors |-> <<>>]
                errors  == IF ver.err # Nil
                              THEN ConfigErrorsAdd(errors0, ConfigError(ver.err, FALSE))
                              ELSE errors0
                absPath == Abs(path, cwd).path
                root    == Dir(absPath)
                config  == [dec.config EXCEPT !.Version = ver.version,
                                              !.Path = absPath,
                                              !.RootDir = root]
            IN  [ptr    |-> Ptr(ConfigAddr),
                 config |-> config,
                 errs   |-> IF ConfigErrorsLen(errors) # 0 THEN errors ELSE Nil]

\* What ioutil.ReadFile(path) returns as its error: nil, or that the file
\* cannot be read.
ReadErrs == {"nil", "notExist"}

\* func NewConfigFromFile(path string) (*Config, *ConfigErrors), the file
\* read with the error readErr and, when it is read, holding toks.
NewConfigFromFile(readErr, toks, path, cwd) ==
    IF readErr # "nil"
        THEN [ptr    |-> Ptr(PlaceholderAddr),
              config |-> EmptyConfig,
              errs   |-> NewConfigErrors(<<ConfigError(readErr, TRUE)>>)]
        ELSE NewConfigFromData(toks, path, cwd)

\* The most members an object of the documents holds.
MaxMembers == 2

RawVersions ==
    {<<>>, <<"1", ".", "0", ".", "0">>,
     <<"v", "0", ".", "5", ".", "1", "-", "R", "C">>,
     <<"1", ".", "0">>, <<"1", ".", "0", ".", "0", "-", "f", "o", "o">>,
     <<"a", ".", "1", ".", "0">>}

\* The members of the documents: "version", "name" and a key of no field,
\* each with a string, a number or a null.
Members ==
    {<<JStr(KeyVersion), Tok(":"), v>> :
        v \in {JStr(r) : r \in RawVersions} \cup {JNum, JNull}}
    \cup {<<JStr(KeyName), Tok(":"), v>> :
            v \in {JStr(<<"m", "y", "/", "x">>), JNum, JNull}}
    \cup {<<JStr(<<"x">>), Tok(":"), JStr(<<"y">>)>>}

RECURSIVE MemberTokens(_)
MemberTokens(ms) ==
    IF ms = <<>> THEN <<>>
    ELSE IF Len(ms) = 1 THEN ms[1]
    ELSE ms[1] \o <<Tok(",")>> \o MemberTokens(Tail(ms))

Objects ==
    {<<Tok("{")>> \o MemberTokens(ms) \o <<Tok("}")>> :
        ms \in UNION {[1..n -> Members] : n \in 0..MaxMembers}}

\* The documents: the objects, the scalars, and what does not parse (the
\* empty document, an object cut before its "}", a comma before the "}").
Documents ==
    Objects
    \cup {<<JNull>>, <<JNum>>, <<JStr(<<"y">>)>>, <<>>}
    \cup {SubSeq(d, 1, Len(d) - 1) : d \in Objects}
    \cup {SubSeq(d, 1, Len(d) - 1) \o <<Tok(","), Tok("}")>> : d \in Objects}

\* The documents loaded before an error list is rendered: those of at most
\* one member.
ShortDocuments == {d \in Documents : Len(d) <= 5}

ConfigPaths ==
    {<<>>, <<"a", "/", "c", ".", "j">>, <<".", ".", "/", "c", ".", "j">>,
     <<"/", "p", "/", "a", "/", ".", "/", "c", ".", "j">>}
WorkingDirs == {<<"/", "w">>, NoWd}

-----------------------------------------------------------------------------
(* The version strings NewVersion is called with                           *)

\* The largest component value drawn as a canonical decimal numeral.
MaxNum == 3

RECURSIVE Itoa(_)
\* The canonical decimal numeral of n >= 0.
Itoa(n) ==
    LET d == CHOOSE c \in Digits : DigitVal(c) = n % 10
    IN  IF n < 10 THEN <<d>> ELSE Append(Itoa(n \div 10), d)

\* The numeral of 1<<63, the least value above int64.
Int64Overflow == MinInt64Magnitude

NumComps == {Itoa(n) : n \in 0..MaxNum} \cup {<<"1", "2">>, <<"0", "7">>}
OddComps == {<<>>, <<"a">>, <<"+", "1">>, Int64Overflow}
Comps == NumComps \cup OddComps
FewComps == {<<"0">>, <<"1">>, <<"a">>, <<>>}

Prefixes == {<<>>, <<"v">>, <<"v", "v">>}

SuffixTokens ==
    {<<"d", "e", "v">>, <<"p", "a", "t", "c", "h">>, <<"p">>,
     <<"a", "l", "p", "h", "a">>, <<"a">>, <<"b", "e", "t", "a">>, <<"b">>,
     <<"R", "C">>}
OddSuffixes ==
    {<<>>, <<"r", "c">>, <<"D", "E", "V">>, <<"a", "l", "p", "h", "a", "3">>,
     <<"f", "o", "o">>}
SuffixLists ==
    {<<>>} \cup {<<t>> : t \in SuffixTokens \cup OddSuffixes}
           \cup {<<<<"x">>, <<"y">>>>, <<<<"d", "e", "v">>, <<"d", "e", "v">>>>}

PartLists ==
    [1..3 -> Comps] \cup [1..1 -> FewComps] \cup [1..2 -> FewComps]
                    \cup [1..4 -> FewComps]

RECURSIVE Suffixed(_, _)
Suffixed(s, sfx) ==
    IF sfx = <<>> THEN s ELSE Suffixed(s \o <<"-">> \o Head(sfx), Tail(sfx))

VersionString(pfx, parts, sfx) == Suffixed(pfx \o JoinWith(parts, "."), sfx)

VersionInputs ==
    {<<>>} \cup
    {VersionString(pfx, parts, sfx) :
        pfx \in Prefixes, parts \in PartLists, sfx \in SuffixLists}


-----------------------------------------------------------------------------
(* The parts of the state a specification leaves alone                     *)

VersionIdle ==
    /\ val = <<>>
    /\ verOut = Nil
    /\ vpc = "idle"

PsrIdle ==
    /\ psrConfig = EmptyConfig
    /\ nsName = <<>>
    /\ psrOut = Nil
    /\ ppc = "idle"

ChecksIdle ==
    /\ heap = <<>>
    /\ report = Nil
    /\ calls = <<>>
    /\ ran = 0
    /\ last = "idle"

RepoIdle ==
    /\ repo = Nil
    /\ basePath = <<>>
    /\ ncalls = 0

LoadIdle ==
    /\ data = <<>>
    /\ configPath = <<>>
    /\ wd = <<>>
    /\ loadOut = Nil
    /\ lpc = "idle"

RenderIdle ==
    /\ subject = Nil
    /\ rendered = Nil
    /\ rpc = "idle"

-----------------------------------------------------------------------------
(* A call of NewVersion                                                    *)

InitVersion ==
    /\ val \in VersionInputs
    /\ verOut = Nil
    /\ vpc = "call"
    /\ PsrIdle
    /\ ChecksIdle
    /\ RepoIdle
    /\ LoadIdle
    /\ RenderIdle

CallNewVersion ==
    /\ vpc = "call"
    /\ verOut' = NewVersion(val)
    /\ vpc' = "ret"
    /\ UNCHANGED <<val, psrVars, checkVars, repoVars, loadVars, renderVars>>

NextVersion == CallNewVersion

SpecVersion == InitVersion /\ [][NextVersion]_vars

-----------------------------------------------------------------------------
(* A lookup of a namespace                                                 *)

InitPsr4 ==
    /\ \E t \in Psr4Tables, d \in Psr4Tables, r \in RootDirs :
          psrConfig = [EmptyConfig EXCEPT !.Autoload = [Psr4 |-> t],
                                          !.AutoloadDev = [Psr4 |-> d],
                                          !.RootDir = r]
    /\ nsName \in Namespaces
    /\ psrOut = Nil
    /\ ppc = "call"
    /\ VersionIdle
    /\ ChecksIdle
    /\ RepoIdle
    /\ LoadIdle
    /\ RenderIdle

\* c.Autoload.Psr4PathForNamespace(name)
CallAutoloadPsr4 ==
    /\ ppc = "call"
    /\ \E order \in KeyOrders(psrConfig.Autoload.Psr4) :
          psrOut' = AutoloadPsr4PathForNamespace(psrConfig.Autoload, nsName, order)
    /\ ppc' = "Autoload"
    /\ UNCHANGED <<psrConfig, nsName, versionVars, checkVars, repoVars, loadVars, renderVars>>

\* c.Psr4PathForNamespace(name)
CallConfigPsr4 ==
    /\ ppc = "call"
    /\ \E order \in KeyOrders(psrConfig.Autoload.Psr4),
          orderDev \in KeyOrders(psrConfig.AutoloadDev.Psr4) :
          psrOut' = ConfigPsr4PathForNamespace(psrConfig, nsName, order, orderDev)
    /\ ppc' = "Config"
    /\ UNCHANGED <<psrConfig, nsName, versionVars, checkVars, repoVars, loadVars, renderVars>>

NextPsr4 == CallAutoloadPsr4 \/ CallConfigPsr4

SpecPsr4 == InitPsr4 /\ [][NextPsr4]_vars

-----------------------------------------------------------------------------
(* Checks registered and run                                               *)

InitChecks ==
    /\ heap = CheckedConfigs
    /\ report = Nil
    /\ calls = <<>>
    /\ ran = 0
    /\ last = "new"
    /\ VersionIdle
    /\ PsrIdle
    /\ RepoIdle
    /\ LoadIdle
    /\ RenderIdle

\* heap[a].AddCheck(check)
AddCheck ==
    /\ \E a \in DOMAIN heap, check \in CheckFns :
          /\ Len(heap[a].Checks) < MaxChecks
          /\ heap' = [heap EXCEPT ![a] = ConfigAddCheck(@, check)]
    /\ last' = "AddCheck"
    /\ UNCHANGED <<report, calls, ran, versionVars, psrVars, repoVars, loadVars, renderVars>>

\* heap[a].CheckConfig()
CheckConfig ==
    /\ \E a \in DOMAIN heap :
          LET out == ConfigCheckConfig(a, heap[a])
          IN  /\ report' = out.ret
              /\ calls' = out.invoked
              /\ ran' = a
    /\ last' = "CheckConfig"
    /\ UNCHANGED <<heap, versionVars, psrVars, repoVars, loadVars, renderVars>>

NextChecks == AddCheck \/ CheckConfig

SpecChecks == InitChecks /\ [][NextChecks]_vars

-----------------------------------------------------------------------------
(* A repository entry resolved                                             *)

InitRepo ==
    /\ repo \in [Type : RepoTypes, Url : RepoUrls, Resolved : BOOLEAN]
    /\ basePath = <<>>
    /\ ncalls = 0
    /\ VersionIdle
    /\ PsrIdle
    /\ ChecksIdle
    /\ LoadIdle
    /\ RenderIdle

\* repo.ResolveUrl(path)
ResolveUrl ==
    /\ ncalls < MaxResolves
    /\ \E path \in BasePaths :
          /\ repo' = ConfigRepoResolveUrl(repo, path)
          /\ basePath' = path
    /\ ncalls' = ncalls + 1
    /\ UNCHANGED <<versionVars, psrVars, checkVars, loadVars, renderVars>>

NextRepo == ResolveUrl

SpecRepo == InitRepo /\ [][NextRepo]_vars

-----------------------------------------------------------------------------
(* A configuration loaded                                                  *)

InitLoad ==
    /\ data \in Documents
    /\ configPath \in ConfigPaths
    /\ wd \in WorkingDirs
    /\ loadOut = Nil
    /\ lpc = "call"
    /\ VersionIdle
    /\ PsrIdle
    /\ ChecksIdle
    /\ RepoIdle
    /\ RenderIdle

\* NewConfigFromData(data, configPath)
CallNewConfigFromData ==
    /\ lpc = "call"
    /\ loadOut' = NewConfigFromData(data, configPath, wd)
    /\ lpc' = "ret"
    /\ UNCHANGED <<data, configPath, wd, versionVars, psrVars, checkVars, repoVars, renderVars>>

NextLoad == CallNewConfigFromData

SpecLoad == InitLoad /\ [][NextLoad]_vars

-----------------------------------------------------------------------------
(* A configuration loaded and checked, and an error list rendered          *)

InitRender ==
    /\ data \in ShortDocuments
    /\ configPath \in ConfigPaths
    /\ wd \in WorkingDirs
    /\ loadOut = Nil
    /\ lpc = "call"
    /\ subject = Nil
    /\ rendered = Nil
    /\ rpc = "call"
    /\ VersionIdle
    /\ PsrIdle
    /\ ChecksIdle
    /\ RepoIdle

\* config, errs := NewConfigFromData(data, configPath); the Config returned
\* is kept at its address.
LoadFromData ==
    /\ lpc = "call"
    /\ loadOut' = NewConfigFromData(data, configPath, wd)
    /\ heap' = (loadOut'.ptr.addr :> loadOut'.config)
    /\ lpc' = "Data"
    /\ UNCHANGED <<data, configPath, wd, report, calls, ran, last,
                   versionVars, psrVars, repoVars, renderVars>>

\* config, errs := NewConfigFromFile(configPath), the file holding data
\* when it can be read.
LoadFromFile ==
    /\ lpc = "call"
    /\ \E readErr \in ReadErrs :
          loadOut' = NewConfigFromFile(readErr, data, configPath, wd)
    /\ heap' = (loadOut'.ptr.addr :> loadOut'.config)
    /\ lpc' = "File"
    /\ UNCHANGED <<data, configPath, wd, report, calls, ran, last,
                   versionVars, psrVars, repoVars, renderVars>>

\* errs.Error(), errs the error list the load returned
RenderLoadErrors ==
    /\ rpc = "call"
    /\ lpc # "call"
    /\ loadOut.errs # Nil
    /\ subject' = loadOut.errs
    /\ rendered' = ConfigErrorsError(loadOut.errs, heap)
    /\ rpc' = "ret"
    /\ UNCHANGED <<versionVars, psrVars, checkVars, repoVars, loadVars>>

\* report.Error(), report the error list the last CheckConfig returned
RenderReport ==
    /\ rpc = "call"
    /\ report # Nil
    /\ subject' = report
    /\ rendered' = ConfigErrorsError(report, heap)
    /\ rpc' = "ret"
    /\ UNCHANGED <<versionVars, psrVars, checkVars, repoVars, loadVars>>

NextRender ==
    \/ LoadFromData
    \/ LoadFromFile
    \/ AddCheck
    \/ CheckConfig
    \/ RenderLoadErrors
    \/ RenderReport

SpecRender == InitRender /\ [][NextRender]_vars

-----------------------------------------------------------------------------
(* The version grammar, read off the argument alone                        *)

\* The argument without one leading "v".
Unprefixed(v) == IF v # <<>> /\ Head(v) = "v" THEN Tail(v) ELSE v

\* The "-"-separated segments of the argument, and the "."-separated
\* components of the first of them.
DashSegments(v) == Split(Unprefixed(v), "-")
DotComponents(v) == Split(DashSegments(v)[1], ".")

\* DIGITS: one or more decimal digits.
IsDigits(s) == s # <<>> /\ \A i \in 1..Len(s) : s[i] \in Digits

\* An optionally signed decimal integer in the range of int64.
IsInt64Numeral(s) ==
    /\ s # <<>>
    /\ LET digits == IF Head(s) \in {"+", "-"} THEN Tail(s) ELSE s
       IN  /\ IsDigits(digits)
           /\ \/ Len(StripZeros(digits)) < 19
              \/ /\ Len(StripZeros(digits)) = 19
                 /\ \/ LexLeq(StripZeros(digits), MaxInt64Digits)
                    \/ Head(s) = "-" /\ StripZeros(digits) = MinInt64Magnitude

\* ["v"] DIGITS "." DIGITS "." DIGITS ["-" SUFFIX]
InGrammar(v) ==
    /\ Len(DashSegments(v)) \in {1, 2}
    /\ Len(DashSegments(v)) = 2 => DashSegments(v)[2] \in SuffixTokens
    /\ Len(DotComponents(v)) = 3
    /\ \A i \in 1..3 : IsDigits(DotComponents(v)[i])

FlagNames == {"IsDev", "IsPatch", "IsAlpha", "IsBeta", "IsRC"}

\* The flag a suffix token stands for.
FlagFor(token) ==
    CASE token = <<"d", "e", "v">> -> "IsDev"
      [] token \in {<<"p", "a", "t", "c", "h">>, <<"p">>} -> "IsPatch"
      [] token \in {<<"a", "l", "p", "h", "a">>, <<"a">>} -> "IsAlpha"
      [] token \in {<<"b", "e", "t", "a">>, <<"b">>} -> "IsBeta"
      [] token = <<"R", "C">> -> "IsRC"

\* The flags the argument's suffix asks for, and the flags a Version has.
FlagsAsked(v) ==
    IF Len(DashSegments(v)) = 2 THEN {FlagFor(DashSegments(v)[2])} ELSE {}
FlagsSet(version) == {f \in FlagNames : version[f]}

\* The int64 n is the integer the numeral s writes.
Writes(s, n) == n >= 0 /\ Itoa(n) = StripZeros(s)

Returned == vpc = "ret"
Succeeded == verOut.err = Nil /\ verOut.version # Nil
FailedWith(format) ==
    /\ verOut.version = Nil
    /\ verOut.err # Nil
    /\ verOut.err.format = format

FormatMsg == "version must be in the format [v]X.Y.Z[-suffix]"
SuffixMsg == "unknown version suffix '%s'"
PartMsg(i) ==
    CASE i = 1 -> "part 1 ('%s') of the version must be a number"
      [] i = 2 -> "part 2 ('%s') of the version must be a number"
      [] i = 3 -> "part 3 ('%s') of the version must be a number"

\* What C1 promises of a returned Version for an argument of the grammar.
RightVersion(v, version) ==
    /\ Writes(DotComponents(v)[1], version.Major)
    /\ Writes(DotComponents(v)[2], version.Minor)
    /\ Writes(DotComponents(v)[3], version.Micro)
    /\ FlagsSet(version) = FlagsAsked(v)

-----------------------------------------------------------------------------
(* Claims about NewVersion                                                 *)

\* C1 as stated: for every argument X.Y.Z or vX.Y.Z, X, Y and Z any
\* non-negative integers, with or without one of the eight suffix tokens,
\* NewVersion succeeds with Major/Minor/Micro equal to X/Y/Z and exactly the
\* suffix's flag set; no returned Version has more than one flag set.
C1_AnyIntegers ==
    Returned =>
        /\ InGrammar(val) => Succeeded /\ RightVersion(val, verOut.version)
        /\ verOut.version # Nil => Cardinality(FlagsSet(verOut.version)) <= 1

\* C1: for every argument X.Y.Z or vX.Y.Z with X, Y and Z non-negative
\* integers of at most 1<<63 - 1, with or without one of the eight suffix
\* tokens, NewVersion succeeds with Major/Minor/Micro equal to X/Y/Z and
\* exactly the suffix's flag set (none without a suffix); no returned
\* Version has more than one flag set.
C1_VersionOfGrammar ==
    Returned =>
        /\ (InGrammar(val) /\ \A i \in 1..3 : FitsInt64(DotComponents(val)[i]))
              => Succeeded /\ RightVersion(val, verOut.version)
        /\ verOut.version # Nil => Cardinality(FlagsSet(verOut.version)) <= 1

\* "v12.07.3-p" has been parsed into 12, 7, 3 with IsPatch.
C1_Witness ==
    /\ Returned
    /\ val = <<"v", "1", "2", ".", "0", "7", ".", "3", "-", "p">>
    /\ Succeeded
    /\ verOut.version.Major = 12
    /\ verOut.version.Minor = 7
    /\ verOut.version.IsPatch

\* C2 as stated: every non-empty argument that is shorter than five bytes,
\* or has more than one "-" segment after the first, or whose part before
\* the single optional suffix is not three "."-separated components, fails
\* with the format error, whatever the suffix segment is.
C2_AnySuffix ==
    (/\ Returned
     /\ val # <<>>
     /\ \/ Len(val) < 5
        \/ Len(DashSegments(val)) > 2
        \/ Len(DotComponents(val)) # 3)
        => FailedWith(FormatMsg)

\* C2: every non-empty argument that is shorter than five bytes, or has more
\* than one "-" segment after the first, or whose part before an absent or
\* recognized suffix is not three "."-separated components, fails with the
\* format error; an argument of five bytes or more with a single
\* unrecognized suffix segment fails with the unknown-suffix error naming
\* that segment, whatever precedes it.
C2_MalformedFormat ==
    /\ (/\ Returned
        /\ val # <<>>
        /\ \/ Len(val) < 5
           \/ Len(DashSegments(val)) > 2
           \/ /\ Len(DotComponents(val)) # 3
              /\ Len(DashSegments(val)) = 2
                    => DashSegments(val)[2] \in SuffixTokens)
          => FailedWith(FormatMsg)
    /\ (/\ Returned
        /\ Len(val) >= 5
        /\ Len(DashSegments(val)) = 2
        /\ DashSegments(val)[2] \notin SuffixTokens)
          => /\ FailedWith(SuffixMsg)
             /\ verOut.err.args = <<DashSegments(val)[2]>>

\* "1.0.0.0-dev", four components before a recognized suffix, has failed
\* with the format error.
C2_Witness ==
    /\ Returned
    /\ val = <<"1", ".", "0", ".", "0", ".", "0", "-", "d", "e", "v">>
    /\ FailedWith(FormatMsg)

\* C3, the half of it about rejection: every argument outside the grammar
\* ["v"] DIGITS "." DIGITS "." DIGITS ["-" SUFFIX] (a signed component, an
\* empty component, an empty, qualified or differently-cased suffix) is
\* rejected with an error and no Version.
C3_OutsideGrammarRejected ==
    (Returned /\ ~InGrammar(val)) => verOut.err # Nil /\ verOut.version = Nil

\* C4 as stated: an argument with exactly three "."-separated components
\* (after the "v" and a recognized suffix), one of which is not an integer,
\* fails with the part error naming the first such position and its text.
C4_AnyLength ==
    (/\ Returned
     /\ Len(DashSegments(val)) \in {1, 2}
     /\ Len(DashSegments(val)) = 2 => DashSegments(val)[2] \in SuffixTokens
     /\ Len(DotComponents(val)) = 3
     /\ \E i \in 1..3 : ~IsInt64Numeral(DotComponents(val)[i]))
        => LET first == CHOOSE i \in 1..3 :
                            /\ ~IsInt64Numeral(DotComponents(val)[i])
                            /\ \A j \in 1..(i - 1) :
                                    IsInt64Numeral(DotComponents(val)[j])
           IN  /\ FailedWith(PartMsg(first))
               /\ verOut.err.args = <<DotComponents(val)[first]>>

\* C4: an argument of at least five bytes with exactly three "."-separated
\* components (after the "v" and a recognized suffix), one of which is not
\* an optionally signed decimal integer of the int64 range, fails with the
\* part error naming the first such position (1-based) and its literal
\* text, and returns no Version.
C4_NonNumericComponent ==
    (/\ Returned
     /\ Len(val) >= 5
     /\ Len(DashSegments(val)) \in {1, 2}
     /\ Len(DashSegments(val)) = 2 => DashSegments(val)[2] \in SuffixTokens
     /\ Len(DotComponents(val)) = 3
     /\ \E i \in 1..3 : ~IsInt64Numeral(DotComponents(val)[i]))
        => LET first == CHOOSE i \in 1..3 :
                            /\ ~IsInt64Numeral(DotComponents(val)[i])
                            /\ \A j \in 1..(i - 1) :
                                    IsInt64Numeral(DotComponents(val)[j])
           IN  /\ FailedWith(PartMsg(first))
               /\ verOut.err.args = <<DotComponents(val)[first]>>

\* "1.a.-RC" has failed on its second component, though its third, the
\* empty one, is no number either.
C4_Witness ==
    /\ Returned
    /\ val = <<"1", ".", "a", ".", "-", "R", "C">>
    /\ FailedWith(PartMsg(2))
    /\ verOut.err.args = <<<<"a">>>>

-----------------------------------------------------------------------------
(* Claims about Psr4PathForNamespace                                       *)

\* The keys of a table that are a prefix of the namespace followed by "\".
MatchingKeys(psr4, name) ==
    {k \in DOMAIN psr4 : HasPrefix(name \o <<Backslash>>, k)}

\* The longest of a non-empty set of keys.
Longest(keys) == CHOOSE k \in keys : \A other \in keys : Len(other) <= Len(k)

\* C5: Autoload.Psr4PathForNamespace(name) returns the value of the longest
\* key that is a prefix of name followed by "\", with found = true, whenever
\* there is such a key (an empty key, or one with an empty path, included),
\* and found = false only when there is none.
C5_LongestPrefix ==
    ppc = "Autoload" =>
        LET matching == MatchingKeys(psrConfig.Autoload.Psr4, nsName)
        IN  IF matching # {}
                THEN psrOut = [path  |-> psrConfig.Autoload.Psr4[Longest(matching)],
                               found |-> TRUE]
                ELSE ~psrOut.found

\* C6: Config.Psr4PathForNamespace(name) answers from the primary table
\* whenever it has a matching key (whatever the dev table holds), from the
\* dev table when only that one has a matching key, and ("", false) when
\* neither has; every path returned is base-name(RootDir) + "/" + the path
\* of the table's longest matching key.
C6_PrimaryThenDev ==
    ppc = "Config" =>
        LET primary == MatchingKeys(psrConfig.Autoload.Psr4, nsName)
            dev     == MatchingKeys(psrConfig.AutoloadDev.Psr4, nsName)
            dir     == Base(psrConfig.RootDir)
        IN  IF primary # {}
                THEN psrOut =
                        [path  |-> dir \o <<"/">>
                                     \o psrConfig.Autoload.Psr4[Longest(primary)],
                         found |-> TRUE]
            ELSE IF dev # {}
                THEN psrOut =
                        [path  |-> dir \o <<"/">>
                                     \o psrConfig.AutoloadDev.Psr4[Longest(dev)],
                         found |-> TRUE]
            ELSE psrOut = [path |-> <<>>, found |-> FALSE]

-----------------------------------------------------------------------------
(* Claims about AddCheck and CheckConfig                                   *)

\* What each registered check of the Config c returns, in registration
\* order, and those of the results that are findings.
CheckResults(c) == [i \in 1..Len(c.Checks) |-> CallCheck(c.Checks[i], c)]
FindingsOf(c) == SelectSeq(CheckResults(c), LAMBDA r : r # Nil)

\* The findings of what CheckConfig returned.
Reported(r) == IF r = Nil THEN <<>> ELSE r.Errors

\* C7: every CheckConfig run invokes each check registered before it once,
\* in registration order, a critical finding stopping nothing; the
\* findings returned are the non-nil results of the checks, in that order;
\* and the run leaves the Configs, their check lists included, unchanged.
C7_AllChecksRun ==
    [][last' = "CheckConfig" =>
          /\ heap' = heap
          /\ calls' = [i \in 1..Len(heap[ran'].Checks) |-> i]
          /\ Reported(report') = FindingsOf(heap[ran'])]_vars

\* A run over the name check and then the warning, on the Config whose
\* name fails the first: both were invoked and both findings returned.
C7_Witness ==
    /\ last = "CheckConfig"
    /\ heap[ran].Checks = <<"namePrefix", "warn">>
    /\ calls = <<1, 2>>
    /\ report # Nil
    /\ Len(report.Errors) = 2
    /\ report.Errors[1].Critical
    /\ ~report.Errors[2].Critical

\* C8: CheckConfig returns nil exactly when no registered check returns a
\* finding (so with no check registered); a report returned holds at least
\* one finding and refers to the Config the run was made on.
C8_NilOrNonEmpty ==
    last = "CheckConfig" =>
        /\ report = Nil <=>
              \A i \in 1..Len(heap[ran].Checks) :
                  CallCheck(heap[ran].Checks[i], heap[ran]) = Nil
        /\ report # Nil =>
              /\ Len(report.Errors) > 0
              /\ report.Config = Ptr(ran)

\* A run on the second Config, with checks registered on the first too,
\* has returned a report of one finding.
C8_Witness ==
    /\ last = "CheckConfig"
    /\ ran = 2
    /\ Len(heap[1].Checks) = 2
    /\ heap[2].Checks = <<"pass", "warn">>
    /\ report # Nil
    /\ report.Config = Ptr(2)
    /\ Len(report.Errors) = 1

-----------------------------------------------------------------------------
(* Claims about ResolveUrl                                                 *)

\* C9: a ResolveUrl call leaves the entry as it is (Type, Url, Resolved)
\* when Resolved is true or Type is not "path", and otherwise rewrites Url
\* (the base path joined with it, cleaned, with forward slashes) and sets
\* Resolved; so Resolved never goes back to false, Url changes only in the
\* step that sets Resolved, and an entry of another Type is never resolved.
C9_ResolveOnce ==
    [][/\ (repo.Resolved \/ repo.Type # "path") => repo' = repo
       /\ (~repo.Resolved /\ repo.Type = "path" /\ ncalls' # ncalls) =>
              /\ repo'.Resolved
              /\ repo'.Type = repo.Type
              /\ repo'.Url = ToSlash(Clean(Join(basePath', repo.Url)))
       /\ repo.Resolved => repo'.Resolved
       /\ repo'.Url # repo.Url => ~repo.Resolved /\ repo'.Resolved
       /\ repo.Type # "path" => repo'.Resolved = repo.Resolved]_vars

\* "../lib" was resolved against "/proj/app" to "/proj/lib", and two more
\* calls with other base paths have left it there.
C9_Witness ==
    /\ ncalls = 3
    /\ basePath = <<"r", "e", "l">>
    /\ repo = [Type |-> "path",
               Url |-> <<"/", "p", "r", "o", "j", "/", "l", "i", "b">>,
               Resolved |-> TRUE]

-----------------------------------------------------------------------------
(* Claims about NewConfigFromData                                          *)

\* What json.Unmarshal makes of the document, and NewVersion of its
\* version.
Decoded == JsonUnmarshal(data, EmptyConfig)
ParsedVersion == NewVersion(Decoded.config.RawVersion)

\* The Config returned holds what was decoded, and the path and directory
\* of the file.
Populated(c) ==
    /\ c.Name = Decoded.config.Name
    /\ c.RawVersion = Decoded.config.RawVersion
    /\ c.Path = Abs(configPath, wd).path
    /\ c.RootDir = Dir(c.Path)

\* C10: NewConfigFromData returns (1) when decoding fails, an empty Config
\* and a list of exactly one finding, critical; (2) when decoding succeeds
\* and the version (absent, empty or malformed) does not parse, the
\* populated Config with a nil Version, Path and RootDir set, and a list of
\* exactly one finding, not critical; (3) otherwise the populated Config
\* with the parsed Version and a nil list.
C10_ThreeOutcomes ==
    lpc = "ret" =>
        IF Decoded.err # "nil"
            THEN /\ loadOut.config = EmptyConfig
                 /\ loadOut.errs # Nil
                 /\ Len(loadOut.errs.Errors) = 1
                 /\ loadOut.errs.Errors[1].Critical
        ELSE IF ParsedVersion.err # Nil
            THEN /\ Populated(loadOut.config)
                 /\ loadOut.config.Version = Nil
                 /\ loadOut.errs # Nil
                 /\ Len(loadOut.errs.Errors) = 1
                 /\ ~loadOut.errs.Errors[1].Critical
        ELSE /\ Populated(loadOut.config)
             /\ loadOut.config.Version # Nil
             /\ loadOut.config.Version = ParsedVersion.version
             /\ loadOut.errs = Nil

\* {"name": "my/x", "version": "1.0"} at "a/c.j" was loaded in "/w": the
\* Config is populated, without a Version, and one finding came with it.
C10_Witness ==
    /\ lpc = "ret"
    /\ data = <<Tok("{"), JStr(KeyName), Tok(":"), JStr(<<"m", "y", "/", "x">>),
                Tok(","), JStr(KeyVersion), Tok(":"), JStr(<<"1", ".", "0">>),
                Tok("}")>>
    /\ loadOut.config.Name = <<"m", "y", "/", "x">>
    /\ loadOut.config.Version = Nil
    /\ loadOut.config.Path = <<"/", "w", "/", "a", "/", "c", ".", "j">>
    /\ loadOut.config.RootDir = <<"/", "w", "/", "a">>
    /\ loadOut.errs # Nil
    /\ ~loadOut.errs.Errors[1].Critical

-----------------------------------------------------------------------------
(* Claims about ConfigErrors.Error                                         *)

\* The line of one finding: the path of the manifest, the marker of a
\* critical finding, the message.
LineOf(path, finding) ==
    <<Lit("config "), Str(path), Lit(": ")>>
    \o (IF finding.Critical THEN <<Lit("<critical> ")>> ELSE <<>>)
    \o <<MsgText(finding.Msg), Lit("\n")>>

RECURSIVE LinesOf(_, _)
LinesOf(path, findings) ==
    IF findings = <<>> THEN <<>>
    ELSE LineOf(path, Head(findings)) \o LinesOf(path, Tail(findings))

\* C11: every error list the library returns (from NewConfigFromFile and
\* NewConfigFromData when the load fails, from NewConfigFromData when the
\* version does not parse, from CheckConfig) has its Config set when it is
\* rendered, and Error() returns one line for each finding, in order, with
\* the path of the manifest in front and "<critical>" on the critical
\* findings and on no other.
C11_EveryListRenders ==
    rpc = "ret" =>
        /\ subject.Config # Nil
        /\ ~rendered.panic
        /\ rendered.res = LinesOf(loadOut.config.Path, subject.Errors)

====
